---- MODULE Spec2Model ----
\* A model of nes_py._rom.ROM: the iNES header validation performed by the
\* constructor, the lazily computed (cached_property) header fields, flags and
\* region boundaries, and the views sliced out of the raw file content.
EXTENDS Integers, Sequences, FiniteSets, TLC

VARIABLES
    status,     \* per instance: "none" (not constructed), "constructed", "raised"
    raised,     \* per instance: the exception __init__ raised ("none" if none)
    trace,      \* per instance: the checks __init__ evaluated, in order
    attrs,      \* per instance: the instance __dict__ (raw_data and cached fields)
    computed,   \* per instance: how often each property body produced a value
    last,       \* per instance: the last attribute read and its outcome
    reads,      \* per instance: the number of attribute reads made so far
    rom_path,   \* per instance: the argument __init__ was called with
    pc,         \* play_random: the statement to run next
    steps,      \* play_random: its argument steps
    iteration,  \* play_random: how many values the for loop took from range(steps)
    terminated, \* play_random: its local terminated
    truncated,  \* play_random: its local truncated
    env_calls   \* play_random: the calls made on env so far, in order

romVars == <<status, raised, trace, attrs, computed, last, reads, rom_path>>
playVars == <<pc, steps, iteration, terminated, truncated, env_calls>>
vars == <<status, raised, trace, attrs, computed, last, reads, rom_path,
          pc, steps, iteration, terminated, truncated, env_calls>>

\* ---------------------------------------------------------------- bounds

\* instances of ROM that exist in one process
NumInstances == 2
MaxSteps == 3
\* the largest PRG/CHR unit count the lifecycle specification puts in a header
MaxUnits == 2
\* attribute reads made on one instance in the lifecycle specification
MaxReads == 2

Instances == 1..NumInstances

\* ---------------------------------------------------------------- values

Byte == 0..255

Min(a, b) == IF a < b THEN a ELSE b
Max(a, b) == IF a > b THEN a ELSE b

\* the size of the iNES header, the bound of raw_data[:16]
HeaderSize == 16
\* the size of the trainer block, 512 in trainer_rom_stop
TrainerSize == 512
\* 2**10, the factor turning KB into bytes
KB == 1024

\* ROM._MAGIC
MAGIC == <<78, 69, 83, 26>>

\* A numpy array is modelled by the bytes the code can index (the first
\* HeaderSize ones) and its length; a view of it by its [lo, hi) offsets.
Array(head, size) == [head |-> head, size |-> size]
View(lo, hi) == [lo |-> lo, hi |-> hi]
ViewLen(v) == v.hi - v.lo

\* v[a:b] for 0 <= a <= b: numpy clamps both ends to the length, never raises
Slice(v, a, b) ==
    LET n == ViewLen(v)
        lo == Min(a, n)
        hi == Max(lo, Min(b, n))
    IN  View(v.lo + lo, v.lo + hi)

\* v[a:]
SliceFrom(v, a) == Slice(v, a, Max(a, ViewLen(v)))

\* the elements of a view that lies within the header
Elements(raw, v) == [k \in 1..ViewLen(v) |-> raw.head[v.lo + k]]

\* v[k]: IndexError when k is out of bounds
Ok(v) == [ok |-> TRUE, v |-> v]
Raise(e) == [ok |-> FALSE, exc |-> e]
Index(raw, v, k) ==
    IF k < ViewLen(v) THEN Ok(raw.head[v.lo + k + 1]) ELSE Raise("IndexError")

\* a comparison of the common prefix alone, ignoring the shapes
array_equal_prefix(a, b) == \A k \in 1..Min(Len(a), Len(b)) : a[k] = b[k]

\* np.array_equal: same shape and same elements
array_equal(a, b) == Len(a) = Len(b) /\ \A k \in 1..Len(a) : a[k] = b[k]

RECURSIVE SeqSum(_)
SeqSum(s) == IF s = <<>> THEN 0 ELSE s[1] + SeqSum(Tail(s))

\* a sum accumulated in the array's own uint8
ArraySumUint8(s) == SeqSum(s) % 256

\* ndarray.sum() of a uint8 array accumulates in uint64, which the sum of the
\* at most HeaderSize bytes of a header slice (at most 16 * 255) cannot wrap
ArraySum(s) == SeqSum(s)

\* f"{b:08b}": eight characters, most significant bit first
Format08b(b) == [k \in 1..8 |-> IF (b \div (2 ^ (8 - k))) % 2 = 1 THEN "1" ELSE "0"]

\* int(s, 2) of a string of binary digits
RECURSIVE ParseBin(_)
ParseBin(s) ==
    IF s = <<>> THEN 0
    ELSE 2 * ParseBin(SubSeq(s, 1, Len(s) - 1)) + (IF s[Len(s)] = "1" THEN 1 ELSE 0)

\* bool(int(c)) of one character; the strings index from 0 in the source
BitAt(s, k) == ParseBin(<<s[k + 1]>>) # 0

\* int * np.uint8: an exact integer under numpy's legacy promotion, uint8
\* (wrapping modulo 256) under NEP 50 promotion
Promotions == {"legacy", "nep50"}
MulUint8(promo, k, b) == IF promo = "nep50" THEN (k * b) % 256 ELSE k * b

\* ---------------------------------------------------------------- properties
\* Each operator is the body of the property of the same name, evaluated on
\* an instance __dict__ d in which the attributes it reads are present.

header(d) == Ok(Slice(View(0, d.raw_data.size), 0, HeaderSize))

_magic(d) == Ok(Slice(d.header, 0, 4))

prg_rom_size(d) ==
    LET b == Index(d.raw_data, d.header, 4)
    IN  IF b.ok THEN Ok(16 * b.v) ELSE b

chr_rom_size(d) ==
    LET b == Index(d.raw_data, d.header, 5)
    IN  IF b.ok THEN Ok(8 * b.v) ELSE b

flags_6(d) ==
    LET b == Index(d.raw_data, d.header, 6)
    IN  IF b.ok THEN Ok(Format08b(b.v)) ELSE b

flags_7(d) ==
    LET b == Index(d.raw_data, d.header, 7)
    IN  IF b.ok THEN Ok(Format08b(b.v)) ELSE b

prg_ram_size(d, promo) ==
    LET b == Index(d.raw_data, d.header, 8)
    IN  IF ~b.ok THEN b
        ELSE IF b.v = 0 THEN Ok(8 * 1)
        ELSE Ok(MulUint8(promo, 8, b.v))

flags_9(d) ==
    LET b == Index(d.raw_data, d.header, 9)
    IN  IF b.ok THEN Ok(Format08b(b.v)) ELSE b

flags_10(d) ==
    LET b == Index(d.raw_data, d.header, 10)
    IN  IF b.ok THEN Ok(Format08b(b.v)) ELSE b

_zero_fill(d) == Ok(ArraySum(Elements(d.raw_data, SliceFrom(d.header, 11))))

\* the nibbles joined in the other order, flags 6 first
mapper_swapped(d) == Ok(ParseBin(SubSeq(d.flags_6, 1, 4) \o SubSeq(d.flags_7, 1, 4)))

mapper(d) == Ok(ParseBin(SubSeq(d.flags_7, 1, 4) \o SubSeq(d.flags_6, 1, 4)))

is_ignore_mirroring(d) == Ok(BitAt(d.flags_6, 4))

has_trainer(d) == Ok(BitAt(d.flags_6, 5))

has_battery_backed_ram(d) == Ok(BitAt(d.flags_6, 6))

is_vertical_mirroring(d) == Ok(BitAt(d.flags_6, 7))

has_play_choice_10(d) == Ok(BitAt(d.flags_7, 6))

has_vs_unisystem(d) == Ok(BitAt(d.flags_7, 7))

is_pal(d) == Ok(BitAt(d.flags_9, 7))

trainer_rom_start(d) == Ok(16)

trainer_rom_stop(d) == IF d.has_trainer THEN Ok(16 + TrainerSize) ELSE Ok(16)

trainer_rom(d) ==
    Ok(Slice(View(0, d.raw_data.size), d.trainer_rom_start, d.trainer_rom_stop))

prg_rom_start(d) == Ok(d.trainer_rom_stop)

\* the size added in KB, not in bytes
prg_rom_stop_in_kb(d) == Ok(d.prg_rom_start + d.prg_rom_size)

prg_rom_stop(d) == Ok(d.prg_rom_start + d.prg_rom_size * KB)

prg_rom(d) == Ok(Slice(View(0, d.raw_data.size), d.prg_rom_start, d.prg_rom_stop))

chr_rom_start(d) == Ok(d.prg_rom_stop)

chr_rom_stop(d) == Ok(d.chr_rom_start + d.chr_rom_size * KB)

chr_rom(d) == Ok(Slice(View(0, d.raw_data.size), d.chr_rom_start, d.chr_rom_stop))

\* the cached properties of ROM
Fields ==
    {"header", "_magic", "prg_rom_size", "chr_rom_size", "flags_6", "flags_7",
     "prg_ram_size", "flags_9", "flags_10", "_zero_fill", "mapper",
     "is_ignore_mirroring", "has_trainer", "has_battery_backed_ram",
     "is_vertical_mirroring", "has_play_choice_10", "has_vs_unisystem", "is_pal",
     "trainer_rom_start", "trainer_rom_stop", "trainer_rom", "prg_rom_start",
     "prg_rom_stop", "prg_rom", "chr_rom_start", "chr_rom_stop", "chr_rom"}

\* the attributes a property body reads, in the order it reads them
Reads(f) ==
    CASE f = "header" -> <<>>
      [] f \in {"_magic", "prg_rom_size", "chr_rom_size", "flags_6", "flags_7",
                "prg_ram_size", "flags_9", "flags_10", "_zero_fill"} -> <<"header">>
      [] f = "mapper" -> <<"flags_7", "flags_6">>
      [] f \in {"is_ignore_mirroring", "has_trainer", "has_battery_backed_ram",
                "is_vertical_mirroring"} -> <<"flags_6">>
      [] f \in {"has_play_choice_10", "has_vs_unisystem"} -> <<"flags_7">>
      [] f = "is_pal" -> <<"flags_9">>
      [] f = "trainer_rom_start" -> <<>>
      [] f = "trainer_rom_stop" -> <<"has_trainer">>
      [] f = "trainer_rom" -> <<"trainer_rom_start", "trainer_rom_stop">>
      [] f = "prg_rom_start" -> <<"trainer_rom_stop">>
      [] f = "prg_rom_stop" -> <<"prg_rom_start", "prg_rom_size">>
      [] f = "prg_rom" -> <<"prg_rom_start", "prg_rom_stop">>
      [] f = "chr_rom_start" -> <<"prg_rom_stop">>
      [] f = "chr_rom_stop" -> <<"chr_rom_start", "chr_rom_size">>
      [] f = "chr_rom" -> <<"chr_rom_start", "chr_rom_stop">>

Body(f, d, promo) ==
    CASE f = "header" -> header(d)
      [] f = "_magic" -> _magic(d)
      [] f = "prg_rom_size" -> prg_rom_size(d)
      [] f = "chr_rom_size" -> chr_rom_size(d)
      [] f = "flags_6" -> flags_6(d)
      [] f = "flags_7" -> flags_7(d)
      [] f = "prg_ram_size" -> prg_ram_size(d, promo)
      [] f = "flags_9" -> flags_9(d)
      [] f = "flags_10" -> flags_10(d)
      [] f = "_zero_fill" -> _zero_fill(d)
      [] f = "mapper" -> mapper(d)
      [] f = "is_ignore_mirroring" -> is_ignore_mirroring(d)
      [] f = "has_trainer" -> has_trainer(d)
      [] f = "has_battery_backed_ram" -> has_battery_backed_ram(d)
      [] f = "is_vertical_mirroring" -> is_vertical_mirroring(d)
      [] f = "has_play_choice_10" -> has_play_choice_10(d)
      [] f = "has_vs_unisystem" -> has_vs_unisystem(d)
      [] f = "is_pal" -> is_pal(d)
      [] f = "trainer_rom_start" -> trainer_rom_start(d)
      [] f = "trainer_rom_stop" -> trainer_rom_stop(d)
      [] f = "trainer_rom" -> trainer_rom(d)
      [] f = "prg_rom_start" -> prg_rom_start(d)
      [] f = "prg_rom_stop" -> prg_rom_stop(d)
      [] f = "prg_rom" -> prg_rom(d)
      [] f = "chr_rom_start" -> chr_rom_start(d)
      [] f = "chr_rom_stop" -> chr_rom_stop(d)
      [] f = "chr_rom" -> chr_rom(d)

\* prg_rom and chr_rom turn an IndexError raised inside their try block, by
\* the slice or by an attribute it reads, into a ValueError
Except(f, exc) ==
    IF f \in {"prg_rom", "chr_rom"} /\ exc = "IndexError" THEN "ValueError" ELSE exc

\* functools.cached_property on an instance whose __dict__ is s.d: the cached
\* value if there is one, else the body's value, stored under the name; an
\* exception stores nothing. s.n counts the values each body produced.
RECURSIVE cached_property(_, _, _)
RECURSIVE GetAll(_, _, _)
GetAll(s, fs, promo) ==
    IF fs = <<>> THEN [s |-> s, ok |-> TRUE]
    ELSE LET r == cached_property(s, fs[1], promo)
         IN  IF r.ok THEN GetAll(r.s, Tail(fs), promo)
             ELSE [s |-> r.s, ok |-> FALSE, exc |-> r.exc]

\* a plain property: the body runs on every read and nothing is looked up
plain_property(s, f, promo) ==
    LET r == GetAll(s, Reads(f), promo)
    IN  IF ~r.ok THEN [s |-> r.s, ok |-> FALSE, exc |-> Except(f, r.exc)]
        ELSE LET b == Body(f, r.s.d, promo)
             IN  IF b.ok
                 THEN [s |-> [d |-> (f :> b.v) @@ r.s.d,
                              n |-> [r.s.n EXCEPT ![f] = @ + 1]],
                       ok |-> TRUE, v |-> b.v]
                 ELSE [s |-> r.s, ok |-> FALSE, exc |-> Except(f, b.exc)]

cached_property(s, f, promo) ==
    IF f \in DOMAIN s.d THEN [s |-> s, ok |-> TRUE, v |-> s.d[f]]
    ELSE LET r == GetAll(s, Reads(f), promo)
         IN  IF ~r.ok THEN [s |-> r.s, ok |-> FALSE, exc |-> Except(f, r.exc)]
             ELSE LET b == Body(f, r.s.d, promo)
                  IN  IF b.ok
                      THEN [s |-> [d |-> (f :> b.v) @@ r.s.d,
                                   n |-> [r.s.n EXCEPT ![f] = @ + 1]],
                            ok |-> TRUE, v |-> b.v]
                      ELSE [s |-> r.s, ok |-> FALSE, exc |-> Except(f, b.exc)]

\* ---------------------------------------------------------------- __init__

NoPath == [type |-> "none"]
NotAString == [type |-> "int"]
MissingFile == [type |-> "str", exists |-> FALSE]
ExistingFile(bytes, size) ==
    [type |-> "str", exists |-> TRUE,
     file |-> Array(SubSeq(bytes, 1, Min(size, Len(bytes))), size)]

NoException == [type |-> "none", msg |-> ""]
Exception(type, msg) == [type |-> type, msg |-> msg]

ZeroCounts == [f \in Fields |-> 0]
EmptyDict == <<>>

\* the reserved bytes checked before the magic
init_zero_fill_first(path, promo) ==
    LET s0 == [d |-> EmptyDict, n |-> ZeroCounts]
    IN
    IF path.type # "str"
    THEN [exc |-> Exception("TypeError", "rom_path must be of type: str."),
          trace |-> <<"isinstance">>, s |-> s0]
    ELSE IF ~path.exists
    THEN [exc |-> Exception("ValueError", "rom_path points to non-existent file"),
          trace |-> <<"isinstance", "exists">>, s |-> s0]
    ELSE
    LET s1 == [d |-> "raw_data" :> path.file, n |-> ZeroCounts]
        z == cached_property(s1, "_zero_fill", promo)
    IN
    IF z.v # 0
    THEN [exc |-> Exception("ValueError", "ROM header zero fill bytes are not zero."),
          trace |-> <<"isinstance", "exists", "fromfile", "_zero_fill">>, s |-> z.s]
    ELSE
    LET m == cached_property(z.s, "_magic", promo)
    IN
    IF ~array_equal(Elements(path.file, m.v), MAGIC)
    THEN [exc |-> Exception("ValueError", "ROM missing magic number in header."),
          trace |-> <<"isinstance", "exists", "fromfile", "_zero_fill", "_magic">>,
          s |-> m.s]
    ELSE [exc |-> NoException,
          trace |-> <<"isinstance", "exists", "fromfile", "_zero_fill", "_magic">>,
          s |-> m.s]

\* ROM.__init__(rom_path): the exception raised (or none), the checks
\* evaluated in order, and the instance __dict__ and counts it leaves
__init__(path, promo) ==
    LET s0 == [d |-> EmptyDict, n |-> ZeroCounts]
    IN
    IF path.type # "str"
    THEN [exc |-> Exception("TypeError", "rom_path must be of type: str."),
          trace |-> <<"isinstance">>, s |-> s0]
    ELSE IF ~path.exists
    THEN [exc |-> Exception("ValueError", "rom_path points to non-existent file"),
          trace |-> <<"isinstance", "exists">>, s |-> s0]
    ELSE
    LET s1 == [d |-> "raw_data" :> path.file, n |-> ZeroCounts]
        m == cached_property(s1, "_magic", promo)
    IN
    IF ~array_equal(Elements(path.file, m.v), MAGIC)
    THEN [exc |-> Exception("ValueError", "ROM missing magic number in header."),
          trace |-> <<"isinstance", "exists", "fromfile", "_magic">>, s |-> m.s]
    ELSE
    LET z == cached_property(m.s, "_zero_fill", promo)
    IN
    IF z.v # 0
    THEN [exc |-> Exception("ValueError", "ROM header zero fill bytes are not zero."),
          trace |-> <<"isinstance", "exists", "fromfile", "_magic", "_zero_fill">>,
          s |-> z.s]
    ELSE [exc |-> NoException,
          trace |-> <<"isinstance", "exists", "fromfile", "_magic", "_zero_fill">>,
          s |-> z.s]

\* ---------------------------------------------------------------- actions

NoRead == [field |-> "", ok |-> TRUE]

\* play_random is not called
NotPlaying ==
    /\ pc = "idle"
    /\ steps = 0
    /\ iteration = 0
    /\ terminated = FALSE
    /\ truncated = FALSE
    /\ env_calls = <<>>

\* no instance constructed yet
Fresh ==
    /\ status = [i \in Instances |-> "none"]
    /\ raised = [i \in Instances |-> NoException]
    /\ trace = [i \in Instances |-> <<>>]
    /\ attrs = [i \in Instances |-> EmptyDict]
    /\ computed = [i \in Instances |-> ZeroCounts]
    /\ last = [i \in Instances |-> NoRead]
    /\ reads = [i \in Instances |-> 0]
    /\ NotPlaying

\* ROM(rom_path[i])
Construct(i) ==
    /\ status[i] = "none"
    /\ rom_path[i] # NoPath
    /\ \E promo \in Promotions :
          LET r == __init__(rom_path[i], promo)
          IN  /\ status' = [status EXCEPT
                               ![i] = IF r.exc = NoException THEN "constructed"
                                      ELSE "raised"]
              /\ raised' = [raised EXCEPT ![i] = r.exc]
              /\ trace' = [trace EXCEPT ![i] = r.trace]
              /\ attrs' = [attrs EXCEPT ![i] = r.s.d]
              /\ computed' = [computed EXCEPT ![i] = r.s.n]
    /\ UNCHANGED <<last, reads, rom_path, playVars>>

\* the values a read computes kept in one cache shared by all the instances
ReadSharedCache(i, fields) ==
    /\ status[i] = "constructed"
    /\ \E f \in fields, promo \in Promotions :
          LET r == cached_property([d |-> attrs[i], n |-> computed[i]], f, promo)
              new == [g \in DOMAIN r.s.d \ DOMAIN attrs[i] |-> r.s.d[g]]
          IN  /\ attrs' = [j \in Instances |->
                              IF status[j] = "constructed" THEN attrs[j] @@ new
                              ELSE attrs[j]]
              /\ computed' = [computed EXCEPT ![i] = r.s.n]
              /\ last' = [last EXCEPT
                             ![i] = IF r.ok THEN [field |-> f, ok |-> TRUE, v |-> r.v]
                                    ELSE [field |-> f, ok |-> FALSE, exc |-> r.exc]]
              /\ reads' = [reads EXCEPT ![i] = @ + 1]
    /\ UNCHANGED <<status, raised, trace, rom_path, playVars>>

\* rom.f for an attribute f drawn from fields, on a constructed instance
Read(i, fields) ==
    /\ status[i] = "constructed"
    /\ \E f \in fields, promo \in Promotions :
          LET r == cached_property([d |-> attrs[i], n |-> computed[i]], f, promo)
          IN  /\ attrs' = [attrs EXCEPT ![i] = r.s.d]
              /\ computed' = [computed EXCEPT ![i] = r.s.n]
              /\ last' = [last EXCEPT
                             ![i] = IF r.ok THEN [field |-> f, ok |-> TRUE, v |-> r.v]
                                    ELSE [field |-> f, ok |-> FALSE, exc |-> r.exc]]
              /\ reads' = [reads EXCEPT ![i] = @ + 1]
    /\ UNCHANGED <<status, raised, trace, rom_path, playVars>>

\* ---------------------------------------------------------------- inputs

\* the 16 header bytes, field by field
Header(magic, prg, chr, f6, f7, ram, f9, f10, zf) ==
    magic \o <<prg, chr, f6, f7, ram, f9, f10>> \o zf

Zeros == <<0, 0, 0, 0, 0>>

\* the file length a header declares: header, trainer, PRG-ROM, CHR-ROM
Declared(prg, chr, f6) ==
    HeaderSize + (IF (f6 \div 4) % 2 = 1 THEN TrainerSize ELSE 0)
        + 16 * KB * prg + 8 * KB * chr

CallerErrors == {NotAString, MissingFile}

\* byte values that set each bit alone, every bit, no bit, and mixed nibbles
ByteSamples == {0, 1, 2, 4, 8, 16, 32, 64, 128, 15, 240, 90, 165, 255}

RegionFields ==
    {"trainer_rom_start", "trainer_rom_stop", "trainer_rom", "prg_rom_start",
     "prg_rom_stop", "prg_rom", "chr_rom_start", "chr_rom_stop", "chr_rom"}

FlagFields ==
    {"mapper", "is_ignore_mirroring", "has_trainer", "has_battery_backed_ram",
     "is_vertical_mirroring", "has_play_choice_10", "has_vs_unisystem", "is_pal",
     "prg_ram_size"}

\* ---------------------------------------------------------------- specifications

\* the instance the sequential specifications construct and read
Main == Min(1, NumInstances)

\* the caller passes path to ROM(...) for the instance Main
Passes(path) == rom_path = [i \in Instances |-> IF i = Main THEN path ELSE NoPath]

\* a path that is no string or names no file, or a file of a few headers,
\* cut short or whole
Init ==
    /\ Fresh
    /\ \/ \E path \in CallerErrors : Passes(path)
       \/ \E m \in {MAGIC, <<78, 69, 83, 0>>}, f6 \in {0, 4},
             zf \in {Zeros, <<0, 1, 0, 0, 0>>} :
            \E size \in {0, 3, 4, 6, 12, 16, 1000, Declared(MaxUnits, 1, f6)} :
                Passes(ExistingFile(Header(m, MaxUnits, 1, f6, 0, 0, 0, 0, zf), size))

\* one ROM, constructed from any kind of path, then read attribute by attribute
Next ==
    \/ Construct(Main)
    \/ (reads[Main] < MaxReads /\ Read(Main, Fields))

Spec == Init /\ [][Next]_vars

\* a caller error, a file whose magic has any byte value in one position, or
\* a file whose reserved bytes are 0 or 255 but for one of any byte value
InitHeader ==
    /\ Fresh
    /\ \/ \E path \in CallerErrors : Passes(path)
       \/ \E m \in {[MAGIC EXCEPT ![k] = b] : k \in 1..4, b \in Byte} \cup {<<0, 0, 0, 0>>},
             zf \in {Zeros, <<0, 1, 0, 0, 0>>},
             size \in {0, 1, 3, 4, 16, Declared(2, 1, 0)} :
            Passes(ExistingFile(Header(m, 2, 1, 0, 0, 0, 0, 0, zf), size))
       \/ \E z \in [1..5 -> {0, 255}], k \in 1..5, b \in Byte,
             size \in {11, 12, 14, 16, Declared(2, 1, 0)} :
            Passes(ExistingFile(Header(MAGIC, 2, 1, 0, 0, 0, 0, 0, [z EXCEPT ![k] = b]),
                                size))

\* one ROM constructed from a header with any byte in the checked positions
NextHeader ==
    \/ Construct(Main)
    \/ (reads[Main] < 1 /\ Read(Main, {"header", "_magic", "_zero_fill"}))

SpecHeader == InitHeader /\ [][NextHeader]_vars

\* every unit count up to MaxUnits, with and without a trainer, in files
\* that are short, exact and long
InitRegions ==
    /\ Fresh
    /\ \E prg \in 0..MaxUnits, chr \in 0..MaxUnits, f6 \in {0, 4} :
        \E size \in {HeaderSize, 1000} \cup
                    {Declared(prg, chr, f6) + e : e \in {-1, 0, 1}} :
            Passes(ExistingFile(Header(MAGIC, prg, chr, f6, 0, 0, 0, 0, Zeros), size))

\* one ROM whose region boundaries and views are read
NextRegions ==
    \/ Construct(Main)
    \/ (reads[Main] < MaxReads /\ Read(Main, RegionFields))

SpecRegions == InitRegions /\ [][NextRegions]_vars

\* a file holding the header alone, with every value of one flag byte against
\* sampled values of the other, every TV-system byte and every PRG-RAM byte
InitFlags ==
    /\ Fresh
    /\ \E a \in Byte, b \in ByteSamples, which \in 1..4 :
        LET f6 == IF which = 1 THEN a ELSE IF which = 2 THEN b ELSE 0
            f7 == IF which = 1 THEN b ELSE IF which = 2 THEN a ELSE 0
            f9 == IF which = 3 THEN a ELSE 0
            ram == IF which = 4 THEN a ELSE 0
        IN  Passes(ExistingFile(Header(MAGIC, 0, 0, f6, f7, ram, f9, 0, Zeros),
                                HeaderSize))

\* one ROM, one decoded flag read from it
NextFlags ==
    \/ Construct(Main)
    \/ (reads[Main] < 1 /\ Read(Main, FlagFields))

SpecFlags == InitFlags /\ [][NextFlags]_vars

\* the paths decoded concurrently: a whole header, another whole header with
\* other flags and PRG-RAM units, and a whole header with a wrong magic
ConcurrentPaths ==
    {ExistingFile(Header(MAGIC, 2, 1, 165, 90, 0, 0, 0, Zeros), HeaderSize),
     ExistingFile(Header(MAGIC, 1, 0, 16, 0, 32, 1, 0, Zeros), HeaderSize),
     ExistingFile(Header(<<78, 69, 83, 0>>, 2, 1, 165, 90, 0, 0, 0, Zeros), HeaderSize)}

ConcurrentFields == {"mapper", "prg_ram_size"}

\* every instance is passed a path of its own
InitConcurrent ==
    /\ Fresh
    /\ rom_path \in [Instances -> ConcurrentPaths]

\* the threads construct and read their own instances in any interleaving
NextConcurrent ==
    \E i \in Instances :
        \/ Construct(i)
        \/ (reads[i] < MaxReads /\ Read(i, ConcurrentFields))

SpecConcurrent == InitConcurrent /\ [][NextConcurrent]_vars

\* ------------------------------------------------------------ play_random

\* a call on env: its name and, for a step that returned, the two flags
Call(op) == [op |-> op, terminated |-> FALSE, truncated |-> FALSE]
StepCall(term, trunc) == [op |-> "step", terminated |-> term, truncated |-> trunc]

\* the statements inside the try block
InTry == {"start", "for", "if", "sample", "step", "render"}

\* the loop resets only when both flags are set
NeedsResetBoth(term, trunc) == term /\ trunc

\* if terminated or truncated
NeedsReset(term, trunc) == term \/ trunc

\* the call on env a statement makes, if any
CallAt(at) ==
    CASE at = "if" -> IF NeedsReset(terminated, truncated) THEN <<Call("reset")>> ELSE <<>>
      [] at = "sample" -> <<Call("action_space.sample")>>
      [] at = "step" -> <<Call("step")>>
      [] at = "render" -> <<Call("render")>>
      [] at = "close" -> <<Call("close")>>
      [] OTHER -> <<>>

\* terminated = True; truncated = True; progress = tqdm(range(steps))
Start ==
    /\ pc = "start"
    /\ terminated' = TRUE
    /\ truncated' = TRUE
    /\ pc' = "for"
    /\ UNCHANGED <<steps, iteration, env_calls, romVars>>

\* for _ in progress: the next value of range(steps), or the end of the loop
For ==
    /\ pc = "for"
    /\ IF iteration < steps
       THEN iteration' = iteration + 1 /\ pc' = "if"
       ELSE iteration' = iteration /\ pc' = "close"
    /\ UNCHANGED <<steps, terminated, truncated, env_calls, romVars>>

\* if terminated or truncated: _ = env.reset()
If ==
    /\ pc = "if"
    /\ env_calls' = IF NeedsReset(terminated, truncated)
                    THEN Append(env_calls, Call("reset"))
                    ELSE env_calls
    /\ pc' = "sample"
    /\ UNCHANGED <<steps, iteration, terminated, truncated, romVars>>

\* action = env.action_space.sample()
Sample ==
    /\ pc = "sample"
    /\ env_calls' = Append(env_calls, Call("action_space.sample"))
    /\ pc' = "step"
    /\ UNCHANGED <<steps, iteration, terminated, truncated, romVars>>

\* _, reward, terminated, truncated, info = env.step(action), and
\* progress.set_postfix(...); the environment returns any pair of flags
Step ==
    /\ pc = "step"
    /\ \E term \in BOOLEAN, trunc \in BOOLEAN :
          /\ env_calls' = Append(env_calls, StepCall(term, trunc))
          /\ terminated' = term
          /\ truncated' = trunc
    /\ pc' = "render"
    /\ UNCHANGED <<steps, iteration, romVars>>

\* env.render()
Render ==
    /\ pc = "render"
    /\ env_calls' = Append(env_calls, Call("render"))
    /\ pc' = "for"
    /\ UNCHANGED <<steps, iteration, terminated, truncated, romVars>>

\* KeyboardInterrupt inside the try block, before the statement's call on env
\* or during it: except KeyboardInterrupt: pass
Interrupt ==
    /\ pc \in InTry
    /\ \E during \in BOOLEAN :
          env_calls' = IF during THEN env_calls \o CallAt(pc) ELSE env_calls
    /\ pc' = "close"
    /\ UNCHANGED <<steps, iteration, terminated, truncated, romVars>>

\* env.close(), and play_random returns
Close ==
    /\ pc = "close"
    /\ env_calls' = Append(env_calls, Call("close"))
    /\ pc' = "returned"
    /\ UNCHANGED <<steps, iteration, terminated, truncated, romVars>>

\* KeyboardInterrupt after the try statement, before env.close() is called or
\* during it: the exception leaves play_random
InterruptAfterTry ==
    /\ pc = "close"
    /\ \E during \in BOOLEAN :
          env_calls' = IF during THEN env_calls \o CallAt(pc) ELSE env_calls
    /\ pc' = "raised"
    /\ UNCHANGED <<steps, iteration, terminated, truncated, romVars>>

\* play_random(env, steps) is called with any steps >= 0
InitPlay ==
    /\ status = [i \in Instances |-> "none"]
    /\ raised = [i \in Instances |-> NoException]
    /\ trace = [i \in Instances |-> <<>>]
    /\ attrs = [i \in Instances |-> EmptyDict]
    /\ computed = [i \in Instances |-> ZeroCounts]
    /\ last = [i \in Instances |-> NoRead]
    /\ reads = [i \in Instances |-> 0]
    /\ rom_path = [i \in Instances |-> NoPath]
    /\ pc = "start"
    /\ steps \in 0..MaxSteps
    /\ iteration = 0
    /\ terminated = FALSE
    /\ truncated = FALSE
    /\ env_calls = <<>>

NextPlay ==
    \/ Start
    \/ For
    \/ If
    \/ Sample
    \/ Step
    \/ Render
    \/ Interrupt
    \/ Close
    \/ InterruptAfterTry

SpecPlay == InitPlay /\ [][NextPlay]_vars

\* ---------------------------------------------------------------- claims

\* the file an instance was constructed from, and its header byte at an offset
IsFile(i) == rom_path[i].type = "str" /\ rom_path[i].exists
FileOf(i) == rom_path[i].file
ByteAt(i, k) == FileOf(i).head[k + 1]
Cached(i, f) == f \in DOMAIN attrs[i]

\* the exclusive end boundary computed for a region
StopOf(r) ==
    CASE r = "trainer_rom" -> "trainer_rom_stop"
      [] r = "prg_rom" -> "prg_rom_stop"
      [] r = "chr_rom" -> "chr_rom_stop"

Regions == {"trainer_rom", "prg_rom", "chr_rom"}

\* C1: a region whose computed end boundary exceeds the length of the raw
\* buffer is never yielded as a view: construction or the read of the region
\* fails instead.
C1_TruncatedNeverYieldsView ==
    \A i \in Instances : \A r \in Regions :
        (status[i] = "constructed" /\ Cached(i, r))
            => attrs[i][StopOf(r)] <= FileOf(i).size

\* C2: on every constructed instance the region views have exactly the
\* declared lengths: 16384 * prg_units, 8192 * chr_units, and 512 or 0 bytes
\* of trainer.
C2_RegionLengthsExact ==
    \A i \in Instances :
        status[i] = "constructed" =>
            /\ Cached(i, "prg_rom") => ViewLen(attrs[i].prg_rom) = 16384 * ByteAt(i, 4)
            /\ Cached(i, "chr_rom") => ViewLen(attrs[i].chr_rom) = 8192 * ByteAt(i, 5)
            /\ Cached(i, "trainer_rom") =>
                  ViewLen(attrs[i].trainer_rom) =
                      (IF (ByteAt(i, 6) \div 4) % 2 = 1 THEN 512 ELSE 0)

\* the messages of the two header errors
BadMagic == Exception("ValueError", "ROM missing magic number in header.")
BadZeroFill == Exception("ValueError", "ROM header zero fill bytes are not zero.")

\* the first four bytes of the file are exactly 4E 45 53 1A
MagicOk(i) ==
    /\ FileOf(i).size >= 4
    /\ ByteAt(i, 0) = 78 /\ ByteAt(i, 1) = 69 /\ ByteAt(i, 2) = 83 /\ ByteAt(i, 3) = 26

\* one of the reserved bytes the file holds at offsets 11..15 is not zero
ReservedNonZero(i) ==
    \E k \in 11..15 : k < FileOf(i).size /\ ByteAt(i, k) # 0

Done(i) == status[i] # "none"

\* C3: a file whose first four bytes are not the magic, whatever else it
\* holds and however short it is, makes construction fail with the bad-magic
\* error, and no instance is returned.
C3_BadMagicRejected ==
    \A i \in Instances :
        (Done(i) /\ IsFile(i) /\ ~MagicOk(i))
            => (status[i] = "raised" /\ raised[i] = BadMagic)

\* a file of full header length with a wrong magic and a non-zero reserved
\* byte was rejected for its magic
C3_Witness ==
    /\ status[Main] = "raised" /\ raised[Main] = BadMagic
    /\ IsFile(Main) /\ FileOf(Main).size = 16
    /\ ByteAt(Main, 3) = 0 /\ ByteAt(Main, 12) = 1

\* C4: with the magic correct, construction fails with the bad-header error
\* exactly when one of the reserved bytes at offsets 11..15 is not zero; with
\* all of them zero this check rejects nothing.
C4_ReservedBytesChecked ==
    \A i \in Instances :
        (Done(i) /\ IsFile(i) /\ MagicOk(i))
            => IF ReservedNonZero(i)
               THEN status[i] = "raised" /\ raised[i] = BadZeroFill
               ELSE status[i] = "constructed" /\ raised[i] = NoException

\* reserved bytes 255 and 1, whose sum is 0 modulo 256, were rejected
C4_Witness ==
    /\ status[Main] = "raised" /\ raised[Main] = BadZeroFill
    /\ IsFile(Main) /\ FileOf(Main).size = 16
    /\ ByteAt(Main, 11) = 255 /\ ByteAt(Main, 12) = 1
    /\ \A k \in 13..15 : ByteAt(Main, k) = 0

\* C5: once construction has returned without error, no read of a derived
\* field raises.
C5_ReadsNeverRaise ==
    \A i \in Instances : status[i] = "constructed" => last[i].ok

\* bit k of a byte, by shift and mask
Bit(b, k) == (b \div (2 ^ k)) % 2 = 1

\* (flags7 & 0xF0) | (flags6 >> 4)
MapperOf(f6, f7) == (f7 \div 16) * 16 + (f6 \div 16)

\* C6: every decoded flag read from a constructed instance equals the bit of
\* the documented table, and the mapper number is (flags7 & 0xF0) |
\* (flags6 >> 4), within 0..255.
C6_FlagsMatchBitTable ==
    \A i \in Instances :
        status[i] = "constructed" =>
            LET f6 == ByteAt(i, 6)
                f7 == ByteAt(i, 7)
                f9 == ByteAt(i, 9)
                d == attrs[i]
            IN  /\ Cached(i, "mapper") =>
                      d.mapper = MapperOf(f6, f7) /\ d.mapper \in 0..255
                /\ Cached(i, "is_ignore_mirroring") => d.is_ignore_mirroring = Bit(f6, 3)
                /\ Cached(i, "is_vertical_mirroring") =>
                      d.is_vertical_mirroring = Bit(f6, 0)
                /\ Cached(i, "has_trainer") => d.has_trainer = Bit(f6, 2)
                /\ Cached(i, "has_battery_backed_ram") =>
                      d.has_battery_backed_ram = Bit(f6, 1)
                /\ Cached(i, "has_vs_unisystem") => d.has_vs_unisystem = Bit(f7, 0)
                /\ Cached(i, "has_play_choice_10") => d.has_play_choice_10 = Bit(f7, 1)
                /\ Cached(i, "is_pal") => d.is_pal = Bit(f9, 0)

\* the mapper of flags6 = A5, flags7 = 5A was read as 5A
C6_Witness ==
    /\ status[Main] = "constructed" /\ last[Main].field = "mapper"
    /\ ByteAt(Main, 6) = 165 /\ ByteAt(Main, 7) = 90
    /\ attrs[Main].mapper = 90

\* C7: the PRG-RAM size read from a constructed instance is, in KB, exactly
\* 8 times the unit count of header byte 8, a count of 0 standing for 1.
C7_PrgRamSizeExact ==
    \A i \in Instances :
        (status[i] = "constructed" /\ Cached(i, "prg_ram_size"))
            => attrs[i].prg_ram_size =
                   8 * (IF ByteAt(i, 8) = 0 THEN 1 ELSE ByteAt(i, 8))

\* C8: the region boundaries read from a constructed instance are contiguous
\* and ordered: the trainer spans 16..528 with the trainer bit and 16..16
\* without, PRG-ROM starts where the trainer stops and spans 16384 bytes a
\* unit, CHR-ROM starts where PRG-ROM stops and spans 8192 bytes a unit.
C8_RegionsContiguous ==
    \A i \in Instances :
        status[i] = "constructed" =>
            LET d == attrs[i]
                tstop == IF Bit(ByteAt(i, 6), 2) THEN 528 ELSE 16
                pstop == tstop + 16384 * ByteAt(i, 4)
                cstop == pstop + 8192 * ByteAt(i, 5)
            IN  /\ Cached(i, "trainer_rom_start") => d.trainer_rom_start = 16
                /\ Cached(i, "trainer_rom_stop") => d.trainer_rom_stop = tstop
                /\ Cached(i, "prg_rom_start") => d.prg_rom_start = tstop
                /\ Cached(i, "prg_rom_stop") => d.prg_rom_stop = pstop
                /\ Cached(i, "chr_rom_start") => d.chr_rom_start = pstop
                /\ Cached(i, "chr_rom_stop") => d.chr_rom_stop = cstop
                /\ 16 <= tstop /\ tstop <= pstop /\ pstop <= cstop

\* with the trainer bit set and a file of the declared length, PRG-ROM was
\* read to start at 528 and CHR-ROM to stop at the end of the file
C8_Witness ==
    /\ status[Main] = "constructed" /\ reads[Main] = 2
    /\ Bit(ByteAt(Main, 6), 2) /\ ByteAt(Main, 4) = 2 /\ ByteAt(Main, 5) = 1
    /\ Cached(Main, "chr_rom_stop") /\ attrs[Main].prg_rom_start = 528
    /\ attrs[Main].chr_rom_stop = FileOf(Main).size
    /\ last[Main].field = "prg_rom_start"

\* check c was evaluated, and check b before it
Evaluated(i, c) == \E k \in 1..Len(trace[i]) : trace[i][k] = c
Before(i, b, c) ==
    \A k \in 1..Len(trace[i]) :
        trace[i][k] = c => \E j \in 1..(k - 1) : trace[i][j] = b

\* C9: a rom_path that is no string fails with TypeError after the type check
\* alone; a string naming no file fails with ValueError after the type and
\* existence checks alone; in both cases no file is read and no header check
\* is evaluated; and the reserved bytes are never checked before the magic.
C9_CallerErrorsFirst ==
    \A i \in Instances :
        Done(i) =>
            /\ rom_path[i].type # "str" =>
                  /\ status[i] = "raised" /\ raised[i].type = "TypeError"
                  /\ trace[i] = <<"isinstance">>
                  /\ DOMAIN attrs[i] = {}
            /\ (rom_path[i].type = "str" /\ ~rom_path[i].exists) =>
                  /\ status[i] = "raised" /\ raised[i].type = "ValueError"
                  /\ raised[i] # BadMagic /\ raised[i] # BadZeroFill
                  /\ trace[i] = <<"isinstance", "exists">>
                  /\ DOMAIN attrs[i] = {}
            /\ Before(i, "isinstance", "exists")
            /\ Before(i, "exists", "fromfile")
            /\ Before(i, "fromfile", "_magic")
            /\ Before(i, "_magic", "_zero_fill")
            /\ raised[i] = BadMagic => ~Evaluated(i, "_zero_fill")
            /\ Cached(i, "_zero_fill") => Cached(i, "_magic")

\* a string naming no file was rejected
C9_Witness ==
    /\ status[Main] = "raised" /\ raised[Main].type = "ValueError"
    /\ rom_path[Main] = MissingFile

\* C10: no read changes or drops a value that is cached, a read of a cached
\* field returns the cached value, and no property body produces a value
\* more than once.
C10_ComputedOnce ==
    [][\A i \in Instances :
          /\ \A f \in DOMAIN attrs[i] :
                f \in DOMAIN attrs'[i] /\ attrs'[i][f] = attrs[i][f]
          /\ \A f \in Fields : computed'[i][f] <= 1
          /\ (reads'[i] = reads[i] + 1 /\ last'[i].field \in DOMAIN attrs[i]) =>
                (last'[i].ok /\ last'[i].v = attrs[i][last'[i].field])]_vars

\* two reads were made of a whole header and all that is cached beyond what
\* the constructor cached is trainer_rom_start, read last: one of the reads
\* was of a field cached before it
C10_Witness ==
    /\ status[Main] = "constructed" /\ reads[Main] = 2
    /\ FileOf(Main).size >= 16
    /\ last[Main].field = "trainer_rom_start" /\ last[Main].ok
    /\ DOMAIN attrs[Main] =
          {"raw_data", "header", "_magic", "_zero_fill", "trainer_rom_start"}
    /\ computed[Main]["trainer_rom_start"] = 1

\* something observable through instance i changes in the step
Changes(i) ==
    \/ status'[i] # status[i] \/ raised'[i] # raised[i] \/ trace'[i] # trace[i]
    \/ reads'[i] # reads[i] \/ computed'[i] # computed[i]
    \/ DOMAIN attrs'[i] # DOMAIN attrs[i]
    \/ \E f \in DOMAIN attrs[i] : attrs'[i][f] # attrs[i][f]

\* what instance i shows is what decoding its own path alone gives: the
\* outcome of the constructor, each cached value, and the last read's error
AsAlone(i) ==
    Done(i) =>
        \E p \in Promotions : \E r \in {__init__(rom_path[i], p)} :
            /\ raised[i] = r.exc
            /\ trace[i] = r.trace
            /\ status[i] = (IF r.exc = NoException THEN "constructed" ELSE "raised")
            /\ \A f \in DOMAIN attrs[i] \ {"raw_data"} :
                  \E q \in Promotions : \E v \in {cached_property(r.s, f, q)} :
                      v.ok /\ v.v = attrs[i][f]
            /\ (status[i] = "constructed" /\ ~last[i].ok) =>
                  \E q \in Promotions : \E v \in {cached_property(r.s, last[i].field, q)} :
                      ~v.ok /\ v.exc = last[i].exc

\* C11: in every interleaving of the instances' constructions and reads, a
\* step of one instance changes nothing observed through another, and each
\* instance shows the outcome of decoding its own path alone.
C11_InstancesIndependent ==
    /\ [](\A i \in Instances : AsAlone(i))
    /\ [][\A i \in Instances : \A j \in Instances \ {i} : Changes(i) => ~Changes(j)]_vars

\* two instances decoded different headers, each read its mapper, and the
\* two mappers differ
C11_Witness ==
    /\ NumInstances >= 2
    /\ status[1] = "constructed" /\ status[2] = "constructed"
    /\ Cached(1, "mapper") /\ Cached(2, "mapper")
    /\ attrs[1].mapper # attrs[2].mapper

\* the k-th call on env is a step that returned with a flag set
ReturnedDone(k) ==
    env_calls[k].op = "step" /\ (env_calls[k].terminated \/ env_calls[k].truncated)

\* env.reset was called before the k-th call and no step between the two
\* returned with a flag set
ResetSince(k) ==
    \E j \in 1..(k - 1) :
        /\ env_calls[j].op = "reset"
        /\ \A m \in (j + 1)..(k - 1) : ~ReturnedDone(m)

\* C12: every env.step is made after an env.reset with no step between them
\* that returned terminated or truncated; env.close is never followed by
\* another call on env, and when play_random returns, by the end of its loop
\* or by a KeyboardInterrupt in it, env.close was its last call on env.
C12_ProtocolRespected ==
    /\ \A k \in 1..Len(env_calls) :
          /\ env_calls[k].op = "step" => ResetSince(k)
          /\ env_calls[k].op = "close" => k = Len(env_calls)
    /\ pc = "returned" =>
          Len(env_calls) > 0 /\ env_calls[Len(env_calls)].op = "close"

\* play_random returned after a KeyboardInterrupt cut its loop short, and in
\* the loop a step that returned a flag was followed by a reset and a step
C12_Witness ==
    /\ pc = "returned"
    /\ iteration < steps
    /\ \E k \in 1..Len(env_calls) :
          /\ ReturnedDone(k)
          /\ \E m \in (k + 1)..Len(env_calls) : env_calls[m].op = "step"

====
